---- MODULE Spec2Model ----
(***************************************************************************)
(* gRPC handler of graphql-mesh (packages/handlers/grpc/src/index.ts):     *)
(* the visitor that walks the protobufjs JSON tree and registers enum,     *)
(* input and object types and root fields in a graphql-compose             *)
(* SchemaComposer, the type-name resolver getTypeName, the final           *)
(* buildSchema, and the cancellation callback of a streaming field.        *)
(*                                                                         *)
(* Strings are TLA+ strings; a character is a string of length one.        *)
(***************************************************************************)
EXTENDS Integers, Sequences, FiniteSets, TLC

(***************************************************************************)
(* JavaScript string primitives used by the handler.  The character-wise   *)
(* ones work on the sequence of a string's characters.                     *)
(***************************************************************************)
Char(s, i) == SubSeq(s, i, i)

LowerAlpha == "abcdefghijklmnopqrstuvwxyz"
UpperAlpha == "ABCDEFGHIJKLMNOPQRSTUVWXYZ"
DigitChars == "0123456789"

LowerSet == {Char(LowerAlpha, i) : i \in 1..Len(LowerAlpha)}
UpperSet == {Char(UpperAlpha, i) : i \in 1..Len(UpperAlpha)}
DigitSet == {Char(DigitChars, i) : i \in 1..Len(DigitChars)}

LowerOf == [c \in UpperSet |->
               Char(LowerAlpha, CHOOSE i \in 1..Len(UpperAlpha) : Char(UpperAlpha, i) = c)]
UpperOf == [c \in LowerSet |->
               Char(UpperAlpha, CHOOSE i \in 1..Len(LowerAlpha) : Char(LowerAlpha, i) = c)]

charToLower(c) == IF c \in UpperSet THEN LowerOf[c] ELSE c
charToUpper(c) == IF c \in LowerSet THEN UpperOf[c] ELSE c

\* The characters of a string, and the string of a sequence of characters.
chars(s) == [i \in 1..Len(s) |-> Char(s, i)]

RECURSIVE strFrom(_, _)
strFrom(cs, i) == IF i > Len(cs) THEN "" ELSE cs[i] \o strFrom(cs, i + 1)

str(cs) == strFrom(cs, 1)

lowerChars(cs) == [i \in 1..Len(cs) |-> charToLower(cs[i])]

toLowerCase(s) == str(lowerChars(chars(s)))

startsWith(s, prefix) ==
    Len(s) >= Len(prefix) /\ SubSeq(s, 1, Len(prefix)) = prefix

\* String.prototype.indexOf: the first position (from 1) of pat in s at or
\* after i, 0 when there is none.
RECURSIVE indexFrom(_, _, _)
indexFrom(s, pat, i) ==
    IF i + Len(pat) - 1 > Len(s) THEN 0
    ELSE IF SubSeq(s, i, i + Len(pat) - 1) = pat THEN i
    ELSE indexFrom(s, pat, i + 1)

indexOf(s, pat) == indexFrom(s, pat, 1)

\* String.prototype.replace(pat, "") with a string pattern: the FIRST occurrence
\* of pat, wherever it is, is removed; the rest of the string is kept.
replaceFirst(s, pat) ==
    LET i == indexOf(s, pat)
    IN  IF i = 0 THEN s ELSE SubSeq(s, 1, i - 1) \o SubSeq(s, i + Len(pat), Len(s))

\* The runs of cs between occurrences of the character sep, from position i on;
\* cur is the run being read.
RECURSIVE splitFrom(_, _, _, _)
splitFrom(cs, sep, i, cur) ==
    IF i > Len(cs) THEN <<cur>>
    ELSE IF cs[i] = sep THEN <<cur>> \o splitFrom(cs, sep, i + 1, <<>>)
    ELSE splitFrom(cs, sep, i + 1, Append(cur, cs[i]))

splitChars(cs, sep) == splitFrom(cs, sep, 1, <<>>)

\* String.prototype.split(sep) for a one-character separator.
split(s, sep) ==
    LET parts == splitChars(chars(s), sep)
    IN  [i \in 1..Len(parts) |-> str(parts[i])]

\* Array.prototype.join(sep).
RECURSIVE joinFrom(_, _, _)
joinFrom(parts, sep, i) ==
    IF i > Len(parts) THEN ""
    ELSE IF i = Len(parts) THEN parts[i]
    ELSE parts[i] \o sep \o joinFrom(parts, sep, i + 1)

join(parts, sep) == joinFrom(parts, sep, 1)

(***************************************************************************)
(* no-case / pascal-case / camel-case, as the handler imports them.        *)
(* noCase marks word boundaries with a NUL character; the model writes the *)
(* mark as "|", which like NUL is no letter and no digit.                  *)
(***************************************************************************)
Mark == "|"

IsAlnum(c) == c \in LowerSet \/ c \in UpperSet \/ c \in DigitSet

\* replace(input, /([a-z0-9])([A-Z])/g, "$1\0$2"), from position i on.
RECURSIVE splitLowerUpper(_, _)
splitLowerUpper(cs, i) ==
    IF i > Len(cs) THEN <<>>
    ELSE IF /\ i < Len(cs)
            /\ (cs[i] \in LowerSet \/ cs[i] \in DigitSet)
            /\ cs[i + 1] \in UpperSet
         THEN <<cs[i], Mark, cs[i + 1]>> \o splitLowerUpper(cs, i + 2)
         ELSE <<cs[i]>> \o splitLowerUpper(cs, i + 1)

\* replace(input, /([A-Z])([A-Z][a-z])/g, "$1\0$2"), from position i on.
RECURSIVE splitUpperUpperLower(_, _)
splitUpperUpperLower(cs, i) ==
    IF i > Len(cs) THEN <<>>
    ELSE IF /\ i + 1 < Len(cs)
            /\ cs[i] \in UpperSet
            /\ cs[i + 1] \in UpperSet
            /\ cs[i + 2] \in LowerSet
         THEN <<cs[i], Mark, cs[i + 1], cs[i + 2]>> \o splitUpperUpperLower(cs, i + 3)
         ELSE <<cs[i]>> \o splitUpperUpperLower(cs, i + 1)

\* replace(input, /[^A-Z0-9]+/gi, "\0"), from position i on: every run of
\* characters that are no letter and no digit becomes one mark.
RECURSIVE stripNonAlnum(_, _)
stripNonAlnum(cs, i) ==
    IF i > Len(cs) THEN <<>>
    ELSE IF IsAlnum(cs[i]) THEN <<cs[i]>> \o stripNonAlnum(cs, i + 1)
    ELSE IF i > 1 /\ ~IsAlnum(cs[i - 1]) THEN stripNonAlnum(cs, i + 1)
    ELSE <<Mark>> \o stripNonAlnum(cs, i + 1)

\* while (result.charAt(start) === "\0") start++
RECURSIVE trimStart(_, _)
trimStart(cs, start) ==
    IF start <= Len(cs) /\ cs[start] = Mark THEN trimStart(cs, start + 1) ELSE start

\* while (result.charAt(end - 1) === "\0") end--
RECURSIVE trimEnd(_, _)
trimEnd(cs, end) ==
    IF end >= 1 /\ cs[end] = Mark THEN trimEnd(cs, end - 1) ELSE end

\* The words noCase hands to its transform, each a sequence of characters.
noCaseWords(input) ==
    LET result == stripNonAlnum(splitUpperUpperLower(splitLowerUpper(chars(input), 1), 1), 1)
        start == trimStart(result, 1)
        end == trimEnd(result, Len(result))
    IN  splitChars(SubSeq(result, start, end), Mark)

pascalCaseTransform(word, index) ==
    IF word = <<>> THEN <<>>
    ELSE IF index > 0 /\ word[1] \in DigitSet
         THEN <<"_", word[1]>> \o lowerChars(Tail(word))
         ELSE <<charToUpper(word[1])>> \o lowerChars(Tail(word))

camelCaseTransform(word, index) ==
    IF index = 0 THEN lowerChars(word) ELSE pascalCaseTransform(word, index)

pascalCase(input) ==
    LET words == noCaseWords(input)
    IN  join([i \in 1..Len(words) |-> str(pascalCaseTransform(words[i], i - 1))], "")

camelCase(input) ==
    LET words == noCaseWords(input)
    IN  join([i \in 1..Len(words) |-> str(camelCaseTransform(words[i], i - 1))], "")

(***************************************************************************)
(* The protobufjs JSON tree (root.toJSON()).  A node is an untagged union: *)
(* `has` is the set of attributes it carries, and the visitor classifies   *)
(* it by probing them.  Mappings are sequences in Object.keys order.       *)
(***************************************************************************)
Node(has, values, fields, methods, nested) ==
    [has |-> has, values |-> values, fields |-> fields, methods |-> methods, nested |-> nested]

Entry(key, node) == [key |-> key, node |-> node]

EnumNode(values) == Node({"values"}, values, <<>>, <<>>, <<>>)

\* Type.toJSON always writes `fields`, and `nested` only for nested declarations.
MessageNode(fields, nested) ==
    Node({"fields"} \cup (IF nested = <<>> THEN {} ELSE {"nested"}), <<>>, fields, <<>>, nested)

\* Service.toJSON always writes `methods`, and `nested` only for nested declarations.
ServiceNode(methods, nested) ==
    Node({"methods"} \cup (IF nested = <<>> THEN {} ELSE {"nested"}), <<>>, <<>>, methods, nested)

\* Namespace.toJSON writes `nested` only when the namespace has members.
NamespaceNode(nested) ==
    Node(IF nested = <<>> THEN {} ELSE {"nested"}, <<>>, <<>>, <<>>, nested)

Field(name, type, rule) == [name |-> name, type |-> type, rule |-> rule]

Method(name, requestType, responseType, responseStream) ==
    [name |-> name, requestType |-> requestType, responseType |-> responseType,
     responseStream |-> responseStream]

StringValueRef == "google.protobuf.StringValue"

\* The declarations a package of the input may hold.
HelloRequest == Entry("HelloRequest", MessageNode(<<Field("name", "string", "")>>, <<>>))
Foo ==
    Entry("Foo", MessageNode(<<Field("id", "int64", ""), Field("tags", "string", "repeated")>>,
                             <<Entry("Bar", MessageNode(<<Field("on", "bool", "")>>, <<>>))>>))
FooInput == Entry("FooInput", MessageNode(<<Field("raw", "double", "")>>, <<>>))
ServerStatusDecl ==
    Entry("ServerStatus", MessageNode(<<Field("status", "int32", "")>>, <<>>))
Holder == Entry("Holder", MessageNode(<<Field("of", "com.acme.Foo", "repeated")>>, <<>>))
Status == Entry("Status", EnumNode(<<"ONLINE", "OFFLINE">>))
Greeter ==
    Entry("Greeter",
          ServiceNode(<<Method("SayHello", StringValueRef, StringValueRef, FALSE),
                        Method("GetStatus", StringValueRef, StringValueRef, FALSE),
                        Method("Watch", StringValueRef, StringValueRef, TRUE),
                        Method("getPing", StringValueRef, StringValueRef, FALSE)>>, <<>>))
Get ==
    Entry("Get",
          ServiceNode(<<Method("GETALL", StringValueRef, StringValueRef, FALSE),
                        Method("GetStream", StringValueRef, StringValueRef, TRUE)>>,
                      <<Entry("Opts", MessageNode(<<Field("n", "float", "")>>, <<>>))>>))

Echo ==
    Entry("Echo",
          ServiceNode(<<Method("Echo", "com.acme.HelloRequest", "com.acme.HelloRequest", FALSE)>>,
                      <<>>))

DeclPool == {HelloRequest, Foo, FooInput, ServerStatusDecl, Holder, Status, Greeter, Get, Echo}

DeclKeys == {d.key : d \in DeclPool}

Decl(key) == CHOOSE d \in DeclPool : d.key = key

\* At most MaxDecls declarations in the whole input.
MaxDecls == 2

Packages == {"A", "B", "R"}

\* The sequences of at most n placements of a pool key in a package, no key
\* twice in the same package (a package is a mapping).
RECURSIVE Placements(_)
Placements(n) ==
    IF n = 0 THEN {<<>>}
    ELSE LET shorter == Placements(n - 1)
         IN  shorter \cup
             {Append(p[1], p[2]) : p \in
                 {p \in shorter \X (Packages \X DeclKeys) :
                     /\ Len(p[1]) = n - 1
                     /\ \A i \in 1..Len(p[1]) : p[1][i] # p[2]}}

RECURSIVE keysIn(_, _)
keysIn(placements, package) ==
    IF placements = <<>> THEN <<>>
    ELSE (IF Head(placements)[1] = package THEN <<Head(placements)[2]>> ELSE <<>>)
             \o keysIn(Tail(placements), package)

ScalarNames == {"int32", "int64", "float", "double", "string", "bool"}

\* The type references of a declaration that name a declared type.
refsOf(decl) ==
    ({decl.node.fields[i].type : i \in 1..Len(decl.node.fields)} \ ScalarNames)
    \cup {decl.node.methods[i].requestType : i \in 1..Len(decl.node.methods)}
    \cup {decl.node.methods[i].responseType : i \in 1..Len(decl.node.methods)}

range(seq) == {seq[i] : i \in 1..Len(seq)}

\* protoDefinition.resolveAll() succeeds: every reference names a declaration
\* of the input.
resolvesAll(in) ==
    LET declared == {StringValueRef} \cup {"com.acme." \o k : k \in range(in.declsA)}
                        \cup {"com.acme.v2." \o k : k \in range(in.declsB)}
                        \cup range(in.declsR)
    IN  \A k \in range(in.declsA) \cup range(in.declsB) \cup range(in.declsR) :
            refsOf(Decl(k)) \subseteq declared

\* An input names the declarations of package com.acme (declsA), of the nested
\* package com.acme.v2 (declsB), and those declared outside any package
\* (declsR).
Inputs ==
    {in \in
        {[declsA |-> keysIn(p, "A"), declsB |-> keysIn(p, "B"), declsR |-> keysIn(p, "R")] :
            p \in Placements(MaxDecls)} : resolvesAll(in)}

Decls(keys) == [i \in 1..Len(keys) |-> Decl(keys[i])]

\* The tree of an input: the declarations outside any package, the packages,
\* and google.protobuf.StringValue, which methods of the pool take and return.
TreeOf(in) ==
    NamespaceNode(
        Decls(in.declsR) \o
        <<Entry("com", NamespaceNode(<<Entry("acme", NamespaceNode(
              Decls(in.declsA) \o
              (IF in.declsB = <<>> THEN <<>>
               ELSE <<Entry("v2", NamespaceNode(Decls(in.declsB)))>>)))>>))>>
        \o <<Entry("google", NamespaceNode(<<Entry("protobuf", NamespaceNode(
                 <<Entry("StringValue",
                         MessageNode(<<Field("value", "string", "")>>, <<>>))>>))>>))>>)

\* The node reached from `node` through the keys of `at`.
RECURSIVE nodeAt(_, _)
nodeAt(node, at) ==
    IF at = <<>> THEN node
    ELSE LET i == CHOOSE i \in 1..Len(node.nested) : node.nested[i].key = Head(at)
         IN  nodeAt(node.nested[i].node, Tail(at))

\* YamlConfig.GrpcHandler: the keys the visitor reads.
Configs ==
    {[packageName |-> p, serviceName |-> "Greeter"] : p \in {"com.acme", "acme"}}

(***************************************************************************)
(* State.                                                                  *)
(*   config, input    the handler's configuration and the loaded input     *)
(*   stack            the visit calls still to run, in call order          *)
(*   continuations    service visits suspended at `await Promise.all`      *)
(*   types            schemaComposer's type registry, by name              *)
(*   rootFields       the fields of Query, Mutation and Subscription       *)
(*   created, added   the create*TC and addFields calls made so far        *)
(*   visited          the visit calls run so far, with the branch taken    *)
(*   rejected         a visit call has thrown: getMeshSource will reject   *)
(*   schema           the result of buildSchema                            *)
(*   sub              the response stream of one subscription              *)
(***************************************************************************)
VARIABLES config, input, stack, continuations, types, rootFields, created, added, visited,
          rejected, schema, sub

vars == <<config, input, stack, continuations, types, rootFields, created, added, visited,
          rejected, schema, sub>>

Roots == {"Query", "Mutation", "Subscription"}

SCALARS ==
    [t \in ScalarNames |->
        CASE t = "int32" -> "Int"
          [] t = "int64" -> "BigInt"
          [] t = "float" -> "Float"
          [] t = "double" -> "Float"
          [] t = "string" -> "String"
          [] t = "bool" -> "Boolean"]

\* A registry entry: its composer kind, an enum's values, a message's field thunks.
TypeEntry(kind, values, fields) == [kind |-> kind, values |-> values, fields |-> fields]

\* schemaComposer.add / create*TC: the entry of that name is set, replacing any.
Put(map, key, value) == (key :> value) @@ map

EmptyMap == [k \in {} |-> ""]

\* new SchemaComposer(); add(GraphQLBigInt); createObjectTC({name: 'ServerStatus', ...})
InitialTypes ==
    Put(Put(EmptyMap, "BigInt", TypeEntry("scalar", <<>>, <<>>)),
        "ServerStatus",
        TypeEntry("object", <<>>,
                  <<[name |-> "status", type |-> "String", rule |-> "", isInput |-> FALSE,
                     lazy |-> FALSE]>>))

isEnumType(name) == name \in DOMAIN types /\ types[name].kind = "enum"

\* typePath.replace(config.packageName + '.', '').split('.').join('_')
stripPackage(typePath) ==
    join(split(replaceFirst(typePath, config.packageName \o "."), "."), "_")

\* SCALARS is an object literal, so it also has the properties it inherits from
\* Object.prototype: `key in SCALARS` holds for these names too.
ObjectPrototypeKeys ==
    {"constructor", "hasOwnProperty", "isPrototypeOf", "propertyIsEnumerable",
     "toLocaleString", "toString", "valueOf", "__defineGetter__", "__defineSetter__",
     "__lookupGetter__", "__lookupSetter__", "__proto__"}

\* The value of an inherited property, written as the text it has in a template
\* literal: a built-in function, or for __proto__ the object Object.prototype.
\* No type name has this form, so the value stays distinct from every name.
inheritedValue(key) ==
    CASE key = "__proto__" -> "[object Object]"
      [] key = "constructor" -> "function Object() { [native code] }"
      [] OTHER -> "function " \o key \o "() { [native code] }"

\* typePath in SCALARS
inSCALARS(typePath) == typePath \in DOMAIN SCALARS \/ typePath \in ObjectPrototypeKeys

\* SCALARS[typePath], for a typePath in SCALARS
lookupSCALARS(typePath) ==
    IF typePath \in DOMAIN SCALARS THEN SCALARS[typePath] ELSE inheritedValue(typePath)

getTypeName(typePath, isInput) ==
    IF inSCALARS(typePath) THEN lookupSCALARS(typePath)
    ELSE LET baseTypeName == pascalCase(stripPackage(typePath))
         IN  IF isInput /\ ~isEnumType(baseTypeName)
             THEN baseTypeName \o "Input"
             ELSE baseTypeName

\* currentPath.split('.').join('_')
pathPrefix(currentPath) == join(split(currentPath, "."), "_")

\* The type name of an enum or message `name` declared in `currentPath`.
qualifiedTypeName(name, currentPath) ==
    IF currentPath # config.packageName
    THEN pascalCase(pathPrefix(currentPath) \o "_" \o name)
    ELSE name

\* The root field name of `local` (a method name, or 'ping') of service `name`.
rootFieldNameOf(local, name, currentPath) ==
    LET byService == IF name # config.serviceName THEN camelCase(name \o "_" \o local)
                     ELSE local
    IN  IF currentPath # config.packageName
        THEN camelCase(pathPrefix(currentPath) \o "_" \o byService)
        ELSE byService

\* identifier.startsWith('get') with identifier = methodName.toLowerCase()
isGetMethod(methodName) == startsWith(toLowerCase(methodName), "get")

\* The root a method's field is added to.
methodRoot(method) ==
    IF method.responseStream THEN "Subscription"
    ELSE IF isGetMethod(method.name) THEN "Query"
    ELSE "Mutation"

\* currentPath ? currentPath + '.' + name : name
childPath(currentPath, name) ==
    IF currentPath # "" THEN currentPath \o "." \o name ELSE name

\* const rootNested = root.toJSON({keepComments: true})
rootNested == TreeOf(input)

\* One call visit(nested, name, currentPath); `at` locates nested in rootNested.
Frame(at, name, currentPath) == [at |-> at, name |-> name, currentPath |-> currentPath]

nestedOf(frame) == nodeAt(rootNested, frame.at)

\* Mutant of branchOf: the child-node mapping is probed first.
branchOf_nestedFirst(node) ==
    IF "nested" \in node.has THEN "nested"
    ELSE IF "values" \in node.has THEN "values"
    ELSE IF "fields" \in node.has THEN "fields"
    ELSE IF "methods" \in node.has THEN "methods"
    ELSE "none"

\* The branch of visit a node takes: the first attribute it carries, in the
\* order the if/else-if chain probes them.
branchOf(node) ==
    IF "values" \in node.has THEN "values"
    ELSE IF "fields" \in node.has THEN "fields"
    ELSE IF "methods" \in node.has THEN "methods"
    ELSE IF "nested" \in node.has THEN "nested"
    ELSE "none"

Visit(frame) ==
    [at |-> frame.at, path |-> childPath(frame.currentPath, frame.name),
     branch |-> branchOf(nestedOf(frame))]

\* No subscription yet: no response stream.
NoSub == [field |-> "", state |-> "idle"]

\* buildSchema has not been called.
NoSchema == [status |-> "none", types |-> EmptyMap, roots |-> EmptyMap]

Init ==
    /\ config \in Configs
    /\ input \in Inputs
    /\ stack = <<Frame(<<>>, "", "")>>
    /\ continuations = <<>>
    /\ types = InitialTypes
    /\ rootFields = [r \in Roots |-> EmptyMap]
    /\ created = <<>>
    /\ added = <<>>
    /\ visited = <<>>
    /\ rejected = FALSE
    /\ schema = NoSchema
    /\ sub = NoSub

\* visit, 'values' branch: one enum type whose values are the keys.
visitEnum ==
    /\ stack # <<>>
    /\ branchOf(nestedOf(Head(stack))) = "values"
    /\ LET f == Head(stack)
           nested == nestedOf(f)
           typeName == qualifiedTypeName(f.name, f.currentPath)
       IN  /\ types' = Put(types, typeName, TypeEntry("enum", nested.values, <<>>))
           /\ created' = Append(created, [name |-> typeName, kind |-> "enum",
                                          by |-> childPath(f.currentPath, f.name)])
           /\ visited' = Append(visited, Visit(f))
    /\ stack' = Tail(stack)
    /\ UNCHANGED <<config, input, continuations, rootFields, added, rejected, schema, sub>>

Thunks(fields, isInput) ==
    [i \in 1..Len(fields) |->
        [name |-> fields[i].name, type |-> fields[i].type, rule |-> fields[i].rule,
         isInput |-> isInput, lazy |-> TRUE]]

\* visit, 'fields' branch: the input type, then the output type, each with one
\* lazily typed field per message field.
visitMessage ==
    /\ stack # <<>>
    /\ branchOf(nestedOf(Head(stack))) = "fields"
    /\ LET f == Head(stack)
           nested == nestedOf(f)
           typeName == qualifiedTypeName(f.name, f.currentPath)
           by == childPath(f.currentPath, f.name)
       IN  /\ types' = Put(Put(types, typeName \o "Input",
                               TypeEntry("input", <<>>, Thunks(nested.fields, TRUE))),
                           typeName, TypeEntry("object", <<>>, Thunks(nested.fields, FALSE)))
           /\ created' = created \o
                  <<[name |-> typeName \o "Input", kind |-> "input", by |-> by],
                    [name |-> typeName, kind |-> "object", by |-> by]>>
           /\ visited' = Append(visited, Visit(f))
    /\ stack' = Tail(stack)
    /\ UNCHANGED <<config, input, continuations, rootFields, added, rejected, schema, sub>>

\* One addFields call: the root, the field name and the field config, which
\* records the service and the method it binds.
AddFields(root, name, type, argType, kind, service, method) ==
    [root |-> root, name |-> name, type |-> type, input |-> argType, kind |-> kind,
     service |-> service, method |-> method]

\* The addFields call of each method of service `name`, in Object.keys order.
methodCalls(methods, name, currentPath) ==
    [i \in 1..Len(methods) |->
        AddFields(methodRoot(methods[i]),
                  rootFieldNameOf(methods[i].name, name, currentPath),
                  methods[i].responseType, methods[i].requestType,
                  IF methods[i].responseStream THEN "subscribe" ELSE "unary",
                  childPath(currentPath, name), methods[i].name)]

\* rootTC.addFields({[name]: config}): the field of that name is set, replacing any.
addFields(fields, call) == [fields EXCEPT ![call.root] = Put(@, call.name, call)]

RECURSIVE addAll(_, _, _)
addAll(fields, calls, i) ==
    IF i > Len(calls) THEN fields ELSE addAll(addFields(fields, calls[i]), calls, i + 1)

\* get(grpcObject, currentPath + '.' + name) is the client constructor that
\* loadObject defined for a service of a package.  For a service declared
\* outside any package currentPath is '' and the path '.' + name starts with the
\* empty key, which grpcObject does not have: the lookup gives undefined.
hasServiceClient(currentPath) == currentPath # ""

\* visit, 'methods' branch up to `await Promise.all(...)`.  With a client
\* constructor, the client is made and every method's field is added; the rest
\* of the branch runs as a continuation.  Without one, `new ServiceClient(...)`
\* throws: this visit call rejects before any field is added, and the rejection
\* reaches getMeshSource, while the visit calls of the other nodes still run.
visitService ==
    /\ stack # <<>>
    /\ branchOf(nestedOf(Head(stack))) = "methods"
    /\ LET f == Head(stack)
           calls == methodCalls(nestedOf(f).methods, f.name, f.currentPath)
       IN  IF hasServiceClient(f.currentPath)
           THEN /\ rootFields' = addAll(rootFields, calls, 1)
                /\ added' = added \o calls
                /\ continuations' = Append(continuations, f)
                /\ rejected' = rejected
           ELSE /\ rejected' = TRUE
                /\ UNCHANGED <<rootFields, added, continuations>>
    /\ visited' = Append(visited, Visit(Head(stack)))
    /\ stack' = Tail(stack)
    /\ UNCHANGED <<config, input, types, created, schema, sub>>

\* visit, 'methods' branch after the await: the service's ping field.  The
\* continuations run once the synchronous walk is over; the order in which the
\* engine resumes them is not fixed by the code.
registerPing ==
    /\ stack = <<>>
    /\ \E i \in 1..Len(continuations) :
          LET f == continuations[i]
              rootPingFieldName == rootFieldNameOf("ping", f.name, f.currentPath)
              call == AddFields("Query", rootPingFieldName, "ServerStatus", "", "ping",
                                childPath(f.currentPath, f.name), "")
          IN  /\ rootFields' = addFields(rootFields, call)
              /\ added' = Append(added, call)
              /\ continuations' = SubSeq(continuations, 1, i - 1)
                                      \o SubSeq(continuations, i + 1, Len(continuations))
    /\ UNCHANGED <<config, input, stack, types, created, visited, rejected, schema, sub>>

\* visit, 'nested' branch: visit is called for every child in key order, with
\* the path extended by this node's name.
visitNamespace ==
    /\ stack # <<>>
    /\ branchOf(nestedOf(Head(stack))) = "nested"
    /\ LET f == Head(stack)
           nested == nestedOf(f)
           children == [i \in 1..Len(nested.nested) |->
                           Frame(Append(f.at, nested.nested[i].key), nested.nested[i].key,
                                 childPath(f.currentPath, f.name))]
       IN  /\ stack' = children \o Tail(stack)
           /\ visited' = Append(visited, Visit(f))
    /\ UNCHANGED <<config, input, continuations, types, rootFields, created, added, rejected,
                   schema, sub>>

\* visit of a node that carries none of the four attributes: no branch is taken.
visitNone ==
    /\ stack # <<>>
    /\ branchOf(nestedOf(Head(stack))) = "none"
    /\ visited' = Append(visited, Visit(Head(stack)))
    /\ stack' = Tail(stack)
    /\ UNCHANGED <<config, input, continuations, types, rootFields, created, added, rejected,
                   schema, sub>>

\* Every visit call has run to its end.
TraversalDone == stack = <<>> /\ continuations = <<>>

\* `await visit(rootNested, '', '')` has completed: no visit call has thrown.
Completed == TraversalDone /\ ~rejected

\* A field thunk, evaluated: `rule === 'repeated' ? [T] : T`.
resolveThunk(thunk) ==
    LET typeName == getTypeName(thunk.type, thunk.isInput)
    IN  IF thunk.rule = "repeated" THEN "[" \o typeName \o "]" ELSE typeName

\* The type expression of a registered field: a lazy type is evaluated.
fieldType(field) == IF field.lazy THEN resolveThunk(field) ELSE field.type

\* The type expressions of the fields of the registered type n.
fieldTypes(n) == [i \in 1..Len(types[n].fields) |-> fieldType(types[n].fields[i])]

\* The output type and the `input` argument type of a root field.
rootFieldTypes(call) ==
    IF call.kind = "ping" THEN [type |-> call.type, input |-> ""]
    ELSE [type |-> getTypeName(call.type, FALSE), input |-> getTypeName(call.input, TRUE)]

\* The type a type expression names: T for the list [T].
namedType(type) == IF startsWith(type, "[") THEN SubSeq(type, 2, Len(type) - 1) ELSE type

\* The scalars every GraphQL schema has.
GraphQLScalars == {"Int", "Float", "String", "Boolean", "ID"}

\* The root fields with their types resolved.
typedRoots ==
    [r \in Roots |-> [f \in DOMAIN rootFields[r] |-> rootFieldTypes(rootFields[r][f])]]

\* The types the root fields name.
rootTypeNames(roots) ==
    UNION {UNION {{roots[r][f].type, roots[r][f].input} : f \in DOMAIN roots[r]} :
              r \in Roots} \ {""}

\* The type names a schema built from the root types holds: those the root
\* fields name and, for each of them that is registered, those its fields name.
RECURSIVE reachableTypes(_, _)
reachableTypes(seen, frontier) ==
    IF frontier = {} THEN seen
    ELSE LET n == CHOOSE n \in frontier : TRUE
             named == IF n \in DOMAIN types
                      THEN {namedType(fieldType(field)) : field \in range(types[n].fields)}
                      ELSE {}
         IN  reachableTypes(seen \cup {n}, (frontier \cup named) \ (seen \cup {n}))

\* The references among `names` to a type that is not registered.
unregisteredTypes(names) == {n \in names : n \notin DOMAIN types /\ n \notin GraphQLScalars}

\* schemaComposer.buildSchema(), called once visit has completed.  The schema is
\* built from the root types: the lazy types of the fields it reaches are
\* evaluated, and the types no root field leads to are left out.  It throws
\* when Query has no field, and when a reference names no registered type.
buildSchema ==
    /\ Completed
    /\ schema.status = "none"
    /\ \E roots \in {typedRoots} :
          \E schemaTypes \in {reachableTypes({}, rootTypeNames(roots))} :
             schema' =
                IF DOMAIN rootFields["Query"] # {} /\ unregisteredTypes(schemaTypes) = {}
                THEN [status |-> "built",
                      types |-> [n \in schemaTypes \cap DOMAIN types |-> fieldTypes(n)],
                      roots |-> roots]
                ELSE [status |-> "failed", types |-> EmptyMap, roots |-> EmptyMap]
    /\ UNCHANGED <<config, input, stack, continuations, types, rootFields, created, added,
                   visited, rejected, sub>>

\* subscribe: (__, args) => clientMethod(args.input): the streaming call is
\* started and its response stream handed to withCancel with onCancel.
subscribe ==
    /\ schema.status = "built"
    /\ sub.state = "idle"
    /\ \E f \in DOMAIN rootFields["Subscription"] :
          /\ rootFields["Subscription"][f].kind = "subscribe"
          /\ sub' = [sub EXCEPT !.field = f, !.state = "streaming"]
    /\ UNCHANGED <<config, input, stack, continuations, types, rootFields, created, added,
                   visited, rejected, schema>>

\* () => responseStream.cancel(): the call of the response stream is cancelled.
onCancel(s) == [s EXCEPT !.state = "cancelled"]

\* withCancel invokes the callback it was given.  When and how often it does
\* is decided by withCancel and its consumer, which the handler does not
\* define: any invocation on a started subscription is possible.
cancel ==
    /\ sub.state # "idle"
    /\ sub' = onCancel(sub)
    /\ UNCHANGED <<config, input, stack, continuations, types, rootFields, created, added,
                   visited, rejected, schema>>

Next ==
    \/ visitEnum
    \/ visitMessage
    \/ visitService
    \/ visitNamespace
    \/ visitNone
    \/ registerPing
    \/ buildSchema
    \/ subscribe
    \/ cancel

Spec == Init /\ [][Next]_vars

\* The traversal under the configuration of the specification's scenarios,
\* root package com.acme.
InitScenario == Init /\ config.packageName = "com.acme"

SpecScenario == InitScenario /\ [][Next]_vars

(***************************************************************************)
(* Properties of the traversal.                                            *)
(***************************************************************************)

\* Every node of the tree below `node`, itself included: where it is, the
\* visit call that would reach it, and the node.
RECURSIVE nodesUnder(_, _, _, _)
nodesUnder(node, at, name, currentPath) ==
    {[at |-> at, path |-> childPath(currentPath, name), currentPath |-> currentPath,
      node |-> node]} \cup
    UNION {nodesUnder(node.nested[i].node, Append(at, node.nested[i].key),
                      node.nested[i].key, childPath(currentPath, name)) :
              i \in 1..Len(node.nested)}

AllNodes == nodesUnder(rootNested, <<>>, "", "")

\* The nodes of the tree strictly below n.
strictlyBelow(n) ==
    {d \in AllNodes : Len(d.at) > Len(n.at) /\ SubSeq(d.at, 1, Len(n.at)) = n.at}

visitsOf(n) == {k \in 1..Len(visited) : visited[k].at = n.at}

\* The nodes that carry a child-node mapping together with another mapping.
MixedNodes == {n \in AllNodes : "nested" \in n.node.has /\ n.node.has # {"nested"}}

ExpectedRoot(method) ==
    IF method.responseStream THEN "Subscription"
    ELSE IF startsWith(toLowerCase(method.name), "get") THEN "Query"
    ELSE "Mutation"

\* C1 (as claimed): for every visited service and every method of it, exactly
\* one addFields call is made for the method; its root is Subscription when the
\* response is a stream, else Query when the lower-cased method name starts
\* with "get", else Mutation; and no field of another root is bound to that
\* method.
C1_MethodUnderExactlyOneRoot ==
    \A k \in 1..Len(visited) :
        visited[k].branch = "methods" =>
            LET methods == nodeAt(rootNested, visited[k].at).methods
            IN  \A j \in 1..Len(methods) :
                    LET calls == {i \in 1..Len(added) :
                                     /\ added[i].service = visited[k].path
                                     /\ added[i].method = methods[j].name}
                    IN  /\ Cardinality(calls) = 1
                        /\ \A i \in calls : added[i].root = ExpectedRoot(methods[j])
                        /\ \A r \in Roots \ {ExpectedRoot(methods[j])} :
                               \A f \in DOMAIN rootFields[r] :
                                   ~ /\ rootFields[r][f].service = visited[k].path
                                     /\ rootFields[r][f].method = methods[j].name

\* C2 (as claimed): the root field of a method of the primary service declared
\* in the root package is named by the method name in lower camel case.
C2_PrimaryFieldIsCamelCase ==
    \A i \in 1..Len(added) :
        /\ added[i].kind # "ping"
        /\ added[i].service = config.packageName \o "." \o config.serviceName
        => added[i].name = camelCase(added[i].method)

createdBy(path, kind) ==
    {created[i].name : i \in {i \in 1..Len(created) :
                                 created[i].by = path /\ created[i].kind = kind}}

\* C3 (as claimed): after traversal, for every message the visitor registered,
\* getTypeName of its fully-qualified reference is the registered output name,
\* or that name followed by "Input" in input context, the registered input
\* name; both are distinct registered types.
C3_MessageNamesResolve ==
    Completed =>
        \A k \in 1..Len(visited) :
            visited[k].branch = "fields" =>
                /\ createdBy(visited[k].path, "object") = {getTypeName(visited[k].path, FALSE)}
                /\ createdBy(visited[k].path, "input") = {getTypeName(visited[k].path, TRUE)}
                /\ getTypeName(visited[k].path, TRUE) =
                       getTypeName(visited[k].path, FALSE) \o "Input"
                /\ {getTypeName(visited[k].path, TRUE), getTypeName(visited[k].path, FALSE)}
                       \subseteq DOMAIN types

\* C4 (as claimed): after traversal, for every enum of the tree, getTypeName of
\* its fully-qualified reference is the same name in input and output context.
C4_EnumHasOneIdentity ==
    Completed =>
        \A n \in AllNodes :
            "values" \in n.node.has =>
                getTypeName(n.path, TRUE) = getTypeName(n.path, FALSE)

\* C5 (as claimed): after traversal, no two addFields calls (method fields and
\* ping fields of all services) use the same field name.
C5_FieldNamesUnique ==
    Completed =>
        \A i, j \in 1..Len(added) : i # j => added[i].name # added[j].name

\* C6 (as claimed): after traversal of a tree with N services, Query holds
\* exactly N ping fields, one bound to each service, each of type ServerStatus,
\* and every method field is still the field registered for its method.
C6_OnePingPerService ==
    Completed =>
        LET services == {k \in 1..Len(visited) : visited[k].branch = "methods"}
            pings == {f \in DOMAIN rootFields["Query"] : rootFields["Query"][f].kind = "ping"}
        IN  /\ Cardinality(pings) = Cardinality(services)
            /\ \A k \in services :
                   \E f \in pings : /\ rootFields["Query"][f].service = visited[k].path
                                    /\ rootFields["Query"][f].type = "ServerStatus"
            /\ \A i \in 1..Len(added) :
                   added[i].kind # "ping" => rootFields[added[i].root][added[i].name] = added[i]

allSegments(typePath) == pascalCase(join(split(typePath, "."), "_"))

\* C8 (as claimed): a non-scalar reference in which packageName + "." occurs,
\* but not at position 0, resolves to a base name that keeps every segment.
C8_InnerPrefixKept ==
    TraversalDone =>
        \A n \in DOMAIN types :
            \A i \in 1..Len(types[n].fields) :
                LET thunk == types[n].fields[i]
                IN  /\ thunk.type \notin ScalarNames
                    /\ thunk.lazy
                    /\ indexOf(thunk.type, config.packageName \o ".") > 1
                    /\ ~thunk.isInput
                    => resolveThunk(thunk) =
                           (IF thunk.rule = "repeated"
                            THEN "[" \o allSegments(thunk.type) \o "]"
                            ELSE allSegments(thunk.type))

\* C9 (as claimed): every type name is written by at most one create call, and
\* no declaration writes the predefined ServerStatus name.
C9_TypeNamesWrittenOnce ==
    /\ \A i, j \in 1..Len(created) : i # j => created[i].name # created[j].name
    /\ \A i \in 1..Len(created) : created[i].name \notin DOMAIN InitialTypes

\* The branch the if/else-if chain takes for a node that carries `has`.
FirstShape(has) ==
    CHOOSE b \in has \ {"nested"} :
        \A c \in has \ {"nested"} :
            LET rank == [x \in {"values", "fields", "methods"} |->
                            CASE x = "values" -> 1 [] x = "fields" -> 2 [] x = "methods" -> 3]
            IN  rank[b] <= rank[c]

\* C10: a node that carries a child-node mapping together with an enum-value,
\* field or method mapping is handled by that first shape only: none of the
\* nodes below it is ever visited, no type and no root field is registered for
\* a declaration below it, and once every visit call has run the node itself
\* has been visited exactly once, by one builder, which registered what that
\* shape registers (for a service: its method fields and its ping field, or
\* nothing when the client could not be made).
C10_MixedNodeNotDescended ==
    \A n \in MixedNodes :
        LET shape == FirstShape(n.node.has)
        IN  /\ \A d \in strictlyBelow(n) :
                   /\ visitsOf(d) = {}
                   /\ \A i \in 1..Len(created) : created[i].by # d.path
                   /\ \A i \in 1..Len(added) : added[i].service # d.path
            /\ \A k \in visitsOf(n) : visited[k].branch = shape
            /\ Cardinality(visitsOf(n)) <= 1
            /\ (TraversalDone /\ \A m \in MixedNodes : n \notin strictlyBelow(m)) =>
                   /\ Cardinality(visitsOf(n)) = 1
                   /\ Cardinality({i \in 1..Len(created) : created[i].by = n.path}) =
                          (CASE shape = "values" -> 1
                             [] shape = "fields" -> 2
                             [] shape = "methods" -> 0)
                   /\ Cardinality({i \in 1..Len(added) : added[i].service = n.path}) =
                          (IF shape = "methods" /\ hasServiceClient(n.currentPath)
                           THEN Len(n.node.methods) + 1
                           ELSE 0)

\* A finished traversal of a tree in which the message Foo (fields and a nested
\* message) and the service Get (methods and a nested message) were visited.
C10_Witness ==
    /\ TraversalDone
    /\ \E k \in 1..Len(visited) : visited[k].path = "com.acme.Foo" /\ visited[k].branch = "fields"
    /\ \E k \in 1..Len(visited) :
           visited[k].path = "com.acme.v2.Get" /\ visited[k].branch = "methods"
====
